---- MODULE Spec2Model ----
(***************************************************************************)
(* Model of internal/server/device/device_utils_infiniband.go:             *)
(* the InfiniBand port/VF matcher, the hardware-address setter, the GUID   *)
(* accessors and the snapshot/restore of a VF's GUIDs in the volatile      *)
(* key-value store.                                                        *)
(*                                                                         *)
(* Text is a sequence of one-character strings, so that length, slicing    *)
(* and parsing are computed as the code computes them.  A hardware         *)
(* address or GUID held by the hardware is a sequence of bytes (0..255).   *)
(***************************************************************************)
EXTENDS Integers, Sequences, FiniteSets, TLC

\* ------------------------------------------------------------------------
\* Bounds of the model.
\* ------------------------------------------------------------------------
\* Number of virtual functions the SR-IOV device exposes (indices 0..NumVFs-1).
NumVFs == 2
\* Number of cards in the host network inventory.
MaxCards == 2

\* ------------------------------------------------------------------------
\* Program constants.
\* ------------------------------------------------------------------------
ShortLen == 23
LongLen == 59
PrefixLen == 36

\* ------------------------------------------------------------------------
\* Text helpers.
\* ------------------------------------------------------------------------
HexLower == <<"0","1","2","3","4","5","6","7","8","9","a","b","c","d","e","f">>
HexUpper == <<"0","1","2","3","4","5","6","7","8","9","A","B","C","D","E","F">>
DecDigits == <<"0","1","2","3","4","5","6","7","8","9">>

HexChars == {HexLower[i] : i \in 1..16} \cup {HexUpper[i] : i \in 1..16}
HexTable ==
  [c \in HexChars |->
     IF \E i \in 1..16 : HexLower[i] = c THEN (CHOOSE i \in 1..16 : HexLower[i] = c) - 1
     ELSE (CHOOSE i \in 1..16 : HexUpper[i] = c) - 1]

\* Value of a hexadecimal digit, -1 when c is not one (net's xtoi, per character).
HexVal(c) == IF c \in HexChars THEN HexTable[c] ELSE -1

DecChars == {DecDigits[i] : i \in 1..10}

\* Value of a decimal digit, -1 when c is not one.
DecVal(c) == IF c \in DecChars THEN HexTable[c] ELSE -1

\* s[from:] of Go, with from counted from 0.
Tail0(s, from) == SubSeq(s, from + 1, Len(s))

\* net.xtoi2(s, e): the two leading characters of s are hex digits and, when s
\* is longer, the third character is the separator e.  sep = "" stands for e = 0.
xtoi2ok(s, e) ==
  /\ Len(s) >= 2
  /\ ~ (Len(s) > 2 /\ s[3] # e)
  /\ HexVal(s[1]) >= 0
  /\ HexVal(s[2]) >= 0

xtoi2val(s) == 16 * HexVal(s[1]) + HexVal(s[2])

\* net.ParseMAC: colon or dash separated hex pairs, or dot separated groups of
\* four hex digits, of 6, 8 or 20 bytes.  The result is [ok, hw].
netParseMAC(s) ==
  LET bad == [ok |-> FALSE, hw |-> <<>>]
  IN
  IF Len(s) < 14 THEN bad
  ELSE IF s[3] = ":" \/ s[3] = "-" THEN
    IF (Len(s) + 1) % 3 # 0 THEN bad
    ELSE LET n == (Len(s) + 1) \div 3 IN
      IF n \notin {6, 8, 20} THEN bad
      ELSE IF \A i \in 0..(n - 1) : xtoi2ok(Tail0(s, 3 * i), s[3])
           THEN [ok |-> TRUE, hw |-> [i \in 1..n |-> xtoi2val(Tail0(s, 3 * (i - 1)))]]
           ELSE bad
  ELSE IF s[5] = "." THEN
    IF (Len(s) + 1) % 5 # 0 THEN bad
    ELSE LET n == (2 * (Len(s) + 1)) \div 5 IN
      IF n \notin {6, 8, 20} THEN bad
      ELSE IF \A g \in 0..((n \div 2) - 1) :
                /\ xtoi2ok(SubSeq(s, 5 * g + 1, 5 * g + 2), "")
                /\ xtoi2ok(Tail0(s, 5 * g + 2), s[5])
           THEN [ok |-> TRUE,
                 hw |-> [i \in 1..n |->
                           IF i % 2 = 1
                           THEN xtoi2val(SubSeq(s, 5 * ((i - 1) \div 2) + 1, 5 * ((i - 1) \div 2) + 2))
                           ELSE xtoi2val(Tail0(s, 5 * ((i - 1) \div 2) + 2))]]
           ELSE bad
  ELSE bad

\* net.HardwareAddr.String(): lower-case hex pairs joined by colons.
RECURSIVE HardwareAddrString(_)
HardwareAddrString(hw) ==
  IF Len(hw) = 0 THEN <<>>
  ELSE LET b == hw[1]
           pair == <<HexLower[(b \div 16) + 1], HexLower[(b % 16) + 1]>>
       IN IF Len(hw) = 1 THEN pair
          ELSE pair \o <<":">> \o HardwareAddrString(Tail(hw))

\* The same text with its hex letters in upper case (another spelling of the bytes).
UpperText(s) ==
  [i \in 1..Len(s) |-> IF HexVal(s[i]) >= 10 THEN HexUpper[HexVal(s[i]) + 1] ELSE s[i]]

IsSpace(c) == c \in {" ", "\n", "\t", "\r"}

\* strings.TrimSpace.
RECURSIVE TrimLeft(_)
TrimLeft(s) == IF Len(s) > 0 /\ IsSpace(s[1]) THEN TrimLeft(Tail(s)) ELSE s

RECURSIVE TrimRight(_)
TrimRight(s) ==
  IF Len(s) > 0 /\ IsSpace(s[Len(s)]) THEN TrimRight(SubSeq(s, 1, Len(s) - 1)) ELSE s

TrimSpace(s) == TrimRight(TrimLeft(s))

\* fmt.Sprintf("%d", n).
RECURSIVE FormatNat(_)
FormatNat(n) ==
  IF n < 10 THEN <<DecDigits[n + 1]>>
  ELSE FormatNat(n \div 10) \o <<DecDigits[(n % 10) + 1]>>

FormatInt(n) == IF n < 0 THEN <<"-">> \o FormatNat(0 - n) ELSE FormatNat(n)

\* strconv.ParseUint(s, 10, 32): [ok, val].  The largest value of 32 bits
\* is compared digit by digit, so that no number above it is ever computed.
UintMaxText == <<"4","2","9","4","9","6","7","2","9","5">>

RECURSIVE StripZeros(_)
StripZeros(s) == IF Len(s) > 1 /\ s[1] = "0" THEN StripZeros(Tail(s)) ELSE s

RECURSIVE TextLeq(_, _)
TextLeq(s, t) ==
  IF Len(s) = 0 THEN TRUE
  ELSE IF DecVal(s[1]) # DecVal(t[1]) THEN DecVal(s[1]) < DecVal(t[1])
  ELSE TextLeq(Tail(s), Tail(t))

RECURSIVE DecValue(_)
DecValue(s) ==
  IF Len(s) = 0 THEN 0
  ELSE 10 * DecValue(SubSeq(s, 1, Len(s) - 1)) + DecVal(s[Len(s)])

ParseUint(s) ==
  IF Len(s) = 0 \/ (\E i \in 1..Len(s) : DecVal(s[i]) < 0)
  THEN [ok |-> FALSE, val |-> 0]
  ELSE LET d == StripZeros(s) IN
    IF Len(d) > Len(UintMaxText) \/ (Len(d) = Len(UintMaxText) /\ ~ TextLeq(d, UintMaxText))
    THEN [ok |-> FALSE, val |-> 0]
    ELSE [ok |-> TRUE, val |-> DecValue(d)]

\* ------------------------------------------------------------------------
\* Values of the model, with the parse and the report of the known ones
\* computed once: for every t and hw, ParseMAC(t) is netParseMAC(t) and
\* ReadText(hw) is the trimmed content of the sysfs file.
\* ------------------------------------------------------------------------
\* GUID values the hardware may hold; the first is the example of the source.
GuidA == <<74, 200, 249, 27, 170, 87, 239, 25>>
GuidB == <<2, 0, 0, 0, 0, 0, 0, 1>>
Guids == {GuidA, GuidB}

TextA == HardwareAddrString(GuidA)
TextB == HardwareAddrString(GuidB)

\* A text that is no hex-pair address.
BadText == <<"n","o","t","-","a","-","g","u","i","d">>

\* GUID texts a caller may request: two GUIDs as the hardware reports them,
\* another spelling of the first and a text that does not parse.
ReqTexts == {TextA, TextB, UpperText(TextA), BadText}

ParseTable == [t \in ReqTexts |-> netParseMAC(t)]
ParseMAC(t) == IF t \in ReqTexts THEN ParseTable[t] ELSE netParseMAC(t)

\* Content of /sys/class/infiniband/<dev>/device/sriov/<vf>/node and .../port.
SysfsText(hw) == HardwareAddrString(hw) \o <<"\n">>

ReadTable == [hw \in Guids |-> TrimSpace(SysfsText(hw))]
ReadText(hw) == IF hw \in Guids THEN ReadTable[hw] ELSE TrimSpace(SysfsText(hw))

\* ------------------------------------------------------------------------
\* State.
\* ------------------------------------------------------------------------
VARIABLES
  sriov,      \* the device's SR-IOV exposure: per VF index the node and port GUID bytes
  volatile,   \* the persisted per-instance store: key -> text (<<>> when absent)
  op,         \* the last lifecycle operation: its arguments, its result, what it did
  lease,      \* the GUIDs a successful snapshot recorded and what happened since
  acc,        \* GUID accessor: the last set call, its result and what it did
  accPrev,    \* GUID accessor: summary of the set call before it
  nics,       \* matcher: the host network inventory
  parent,     \* matcher: the requested parent identifier
  ibDevs,     \* matcher: whether the matcher has run, and the map it returned
  hwaddr,     \* address setter: the hardware address bytes of the link
  macOp,      \* address setter: the last call and what it did
  macPrev,    \* address setter: summary of the call before it
  ibPort,     \* provisioner: the matched port descriptor handed to it
  prov,       \* provisioner: the last call, its result and the setup calls it made
  candidate,  \* validators: the text under validation
  verdict     \* validators: what each validator answered for it

vars == <<sriov, volatile, op, lease, acc, accPrev, nics, parent, ibDevs, hwaddr, macOp, macPrev,
          ibPort, prov, candidate, verdict>>
lifecycleVars == <<volatile, op, lease>>
accessorVars == <<acc, accPrev>>
matcherVars == <<nics, parent, ibDevs>>
macVars == <<hwaddr, macOp, macPrev>>
provisionVars == <<ibPort, prov>>
validatorVars == <<candidate, verdict>>

\* ------------------------------------------------------------------------
\* GUID accessors and the snapshot/restore of GUIDs.
\* ------------------------------------------------------------------------
KeyID == "last_state.vf.id"
KeyNode == "last_state.vf.node_guid"
KeyPort == "last_state.vf.port_guid"
Keys == {KeyID, KeyNode, KeyPort}
\* A key of the caller's that the recorder leaves alone.
KeyHostName == "host_name"
StoreKeys == Keys \cup {KeyHostName}

VFs == 0..(NumVFs - 1)

\* os.ReadFile of the node file followed by TrimSpace; readOk is whether the
\* read succeeds this time.  A VF index the device does not have is unreadable.
infinibandGetVFNodeGUID(dev, vfID, readOk) ==
  IF vfID \notin DOMAIN dev \/ ~ readOk
  THEN [err |-> "read", val |-> <<>>]
  ELSE [err |-> "ok", val |-> ReadText(dev[vfID].node)]

infinibandGetVFPortGUID(dev, vfID, readOk) ==
  IF vfID \notin DOMAIN dev \/ ~ readOk
  THEN [err |-> "read", val |-> <<>>]
  ELSE [err |-> "ok", val |-> ReadText(dev[vfID].port)]

\* link.SetNodeGUID / link.SetPortGUID of the link-control collaborator: the
\* hardware takes the bytes when the call succeeds and is left alone otherwise.
LinkSetNodeGUID(dev, hw, vfID, writeOk) ==
  IF writeOk /\ vfID \in DOMAIN dev
  THEN [err |-> "ok", dev |-> [dev EXCEPT ![vfID].node = hw]]
  ELSE [err |-> "write", dev |-> dev]

LinkSetPortGUID(dev, hw, vfID, writeOk) ==
  IF writeOk /\ vfID \in DOMAIN dev
  THEN [err |-> "ok", dev |-> [dev EXCEPT ![vfID].port = hw]]
  ELSE [err |-> "write", dev |-> dev]

\* Faulty variant: the node GUID is written without comparing it with the current one.
infinibandSetVFNodeGUID_AlwaysWrite(dev, vfID, nodeGUID, readOk, writeOk) ==
  LET cur == infinibandGetVFNodeGUID(dev, vfID, readOk)
      guid == ParseMAC(nodeGUID)
      w == LinkSetNodeGUID(dev, guid.hw, vfID, writeOk)
  IN
  IF cur.err # "ok" THEN [err |-> cur.err, dev |-> dev, cur |-> <<>>, writes |-> <<>>]
  ELSE IF ~ guid.ok THEN [err |-> "parse", dev |-> dev, cur |-> cur.val, writes |-> <<>>]
  ELSE [err |-> w.err, dev |-> w.dev, cur |-> cur.val,
        writes |-> <<[kind |-> "node", vf |-> vfID, hw |-> guid.hw]>>]

\* The result of a set: the error, the device afterwards, the current value
\* that was read and the hardware writes issued, in order.
infinibandSetVFNodeGUID(dev, vfID, nodeGUID, readOk, writeOk) ==
  LET cur == infinibandGetVFNodeGUID(dev, vfID, readOk) IN
  IF cur.err # "ok"
  THEN [err |-> cur.err, dev |-> dev, cur |-> <<>>, writes |-> <<>>]
  ELSE IF cur.val # nodeGUID
  THEN LET guid == ParseMAC(nodeGUID) IN
       IF ~ guid.ok
       THEN [err |-> "parse", dev |-> dev, cur |-> cur.val, writes |-> <<>>]
       ELSE LET w == LinkSetNodeGUID(dev, guid.hw, vfID, writeOk) IN
            [err |-> w.err, dev |-> w.dev, cur |-> cur.val,
             writes |-> <<[kind |-> "node", vf |-> vfID, hw |-> guid.hw]>>]
  ELSE [err |-> "ok", dev |-> dev, cur |-> cur.val, writes |-> <<>>]

\* Faulty variant: the port GUID is written without comparing it with the current one.
infinibandSetVFPortGUID_AlwaysWrite(dev, vfID, portGUID, readOk, writeOk) ==
  LET cur == infinibandGetVFPortGUID(dev, vfID, readOk)
      guid == ParseMAC(portGUID)
      w == LinkSetPortGUID(dev, guid.hw, vfID, writeOk)
  IN
  IF cur.err # "ok" THEN [err |-> cur.err, dev |-> dev, cur |-> <<>>, writes |-> <<>>]
  ELSE IF ~ guid.ok THEN [err |-> "parse", dev |-> dev, cur |-> cur.val, writes |-> <<>>]
  ELSE [err |-> w.err, dev |-> w.dev, cur |-> cur.val,
        writes |-> <<[kind |-> "port", vf |-> vfID, hw |-> guid.hw]>>]

\* Faulty variant: the error of the hardware write is dropped.
infinibandSetVFPortGUID_IgnoreWriteError(dev, vfID, portGUID, readOk, writeOk) ==
  LET cur == infinibandGetVFPortGUID(dev, vfID, readOk)
      guid == ParseMAC(portGUID)
      w == LinkSetPortGUID(dev, guid.hw, vfID, writeOk)
  IN
  IF cur.err # "ok" THEN [err |-> cur.err, dev |-> dev, cur |-> <<>>, writes |-> <<>>]
  ELSE IF cur.val = portGUID THEN [err |-> "ok", dev |-> dev, cur |-> cur.val, writes |-> <<>>]
  ELSE IF ~ guid.ok THEN [err |-> "parse", dev |-> dev, cur |-> cur.val, writes |-> <<>>]
  ELSE [err |-> "ok", dev |-> w.dev, cur |-> cur.val,
        writes |-> <<[kind |-> "port", vf |-> vfID, hw |-> guid.hw]>>]

infinibandSetVFPortGUID(dev, vfID, portGUID, readOk, writeOk) ==
  LET cur == infinibandGetVFPortGUID(dev, vfID, readOk) IN
  IF cur.err # "ok"
  THEN [err |-> cur.err, dev |-> dev, cur |-> <<>>, writes |-> <<>>]
  ELSE IF cur.val # portGUID
  THEN LET guid == ParseMAC(portGUID) IN
       IF ~ guid.ok
       THEN [err |-> "parse", dev |-> dev, cur |-> cur.val, writes |-> <<>>]
       ELSE LET w == LinkSetPortGUID(dev, guid.hw, vfID, writeOk) IN
            [err |-> w.err, dev |-> w.dev, cur |-> cur.val,
             writes |-> <<[kind |-> "port", vf |-> vfID, hw |-> guid.hw]>>]
  ELSE [err |-> "ok", dev |-> dev, cur |-> cur.val, writes |-> <<>>]

\* Faulty variant: the two GUIDs are recorded under each other's key.
infinibandSnapshotGUIDs_Swapped(dev, vfID, vol, nodeReadOk, portReadOk) ==
  LET vol1 == [vol EXCEPT ![KeyID] = FormatInt(vfID)]
      nodeGUID == infinibandGetVFNodeGUID(dev, vfID, nodeReadOk)
      portGUID == infinibandGetVFPortGUID(dev, vfID, portReadOk)
  IN
  IF nodeGUID.err # "ok" THEN [err |-> nodeGUID.err, vol |-> vol1, reads |-> 1]
  ELSE IF portGUID.err # "ok" THEN [err |-> portGUID.err, vol |-> vol1, reads |-> 2]
  ELSE [err |-> "ok",
        vol |-> [vol1 EXCEPT ![KeyNode] = portGUID.val, ![KeyPort] = nodeGUID.val],
        reads |-> 2]

\* Faulty variant: the node GUID is recorded as soon as it is read.
infinibandSnapshotGUIDs_EarlyStore(dev, vfID, vol, nodeReadOk, portReadOk) ==
  LET vol1 == [vol EXCEPT ![KeyID] = FormatInt(vfID)]
      nodeGUID == infinibandGetVFNodeGUID(dev, vfID, nodeReadOk)
      portGUID == infinibandGetVFPortGUID(dev, vfID, portReadOk)
      vol2 == [vol1 EXCEPT ![KeyNode] = nodeGUID.val]
  IN
  IF nodeGUID.err # "ok" THEN [err |-> nodeGUID.err, vol |-> vol1, reads |-> 1]
  ELSE IF portGUID.err # "ok" THEN [err |-> portGUID.err, vol |-> vol2, reads |-> 2]
  ELSE [err |-> "ok", vol |-> [vol2 EXCEPT ![KeyPort] = portGUID.val], reads |-> 2]

\* Faulty variant: the three keys are recorded in a store of their own.
infinibandSnapshotGUIDs_FreshStore(dev, vfID, vol, nodeReadOk, portReadOk) ==
  LET vol1 == [k \in DOMAIN vol |-> IF k = KeyID THEN FormatInt(vfID) ELSE <<>>]
      nodeGUID == infinibandGetVFNodeGUID(dev, vfID, nodeReadOk)
      portGUID == infinibandGetVFPortGUID(dev, vfID, portReadOk)
  IN
  IF nodeGUID.err # "ok" THEN [err |-> nodeGUID.err, vol |-> [vol EXCEPT ![KeyID] = FormatInt(vfID)], reads |-> 1]
  ELSE IF portGUID.err # "ok" THEN [err |-> portGUID.err, vol |-> [vol EXCEPT ![KeyID] = FormatInt(vfID)], reads |-> 2]
  ELSE [err |-> "ok",
        vol |-> [vol1 EXCEPT ![KeyNode] = nodeGUID.val, ![KeyPort] = portGUID.val],
        reads |-> 2]

\* infinibandSnapshotGUIDs: the store afterwards, the error and the reads made.
infinibandSnapshotGUIDs(dev, vfID, vol, nodeReadOk, portReadOk) ==
  LET vol1 == [vol EXCEPT ![KeyID] = FormatInt(vfID)]
      nodeGUID == infinibandGetVFNodeGUID(dev, vfID, nodeReadOk)
      portGUID == infinibandGetVFPortGUID(dev, vfID, portReadOk)
  IN
  IF nodeGUID.err # "ok" THEN [err |-> nodeGUID.err, vol |-> vol1, reads |-> 1]
  ELSE IF portGUID.err # "ok" THEN [err |-> portGUID.err, vol |-> vol1, reads |-> 2]
  ELSE [err |-> "ok",
        vol |-> [vol1 EXCEPT ![KeyNode] = nodeGUID.val, ![KeyPort] = portGUID.val],
        reads |-> 2]

\* The outcome of a restore step whose key is absent: nothing is called.
SkippedSet(dev) == [err |-> "ok", dev |-> dev, cur |-> <<>>, writes |-> <<>>]

\* Faulty variant: the port GUID is restored from the node GUID's key.
infinibandRestoreGUIDs_PortFromNode(dev, vol, nodeReadOk, nodeWriteOk, portReadOk, portWriteOk) ==
  LET none == [err |-> "ok", cause |-> "ok", dev |-> dev, writes |-> <<>>, calls |-> <<>>,
               reads |-> 0, vol |-> vol]
      vfID == ParseUint(vol[KeyID])
      n == IF vol[KeyNode] # <<>>
           THEN infinibandSetVFNodeGUID(dev, vfID.val, vol[KeyNode], nodeReadOk, nodeWriteOk)
           ELSE SkippedSet(dev)
      nCalls == IF vol[KeyNode] # <<>> THEN <<"node">> ELSE <<>>
      p == IF vol[KeyPort] # <<>>
           THEN infinibandSetVFPortGUID(n.dev, vfID.val, vol[KeyNode], portReadOk, portWriteOk)
           ELSE SkippedSet(n.dev)
      pCalls == IF vol[KeyPort] # <<>> THEN <<"port">> ELSE <<>>
  IN
  IF vol[KeyID] = <<>> THEN none
  ELSE IF ~ vfID.ok THEN [none EXCEPT !.err = "format", !.cause = "syntax"]
  ELSE IF n.err # "ok"
  THEN [err |-> "restore_node", cause |-> n.err, dev |-> n.dev, writes |-> n.writes,
        calls |-> nCalls, reads |-> Len(nCalls), vol |-> vol]
  ELSE [err |-> IF p.err # "ok" THEN "restore_port" ELSE "ok", cause |-> p.err,
        dev |-> p.dev, writes |-> n.writes \o p.writes,
        calls |-> nCalls \o pCalls, reads |-> Len(nCalls) + Len(pCalls), vol |-> vol]

\* Faulty variant: the VF index is parsed without checking that it is present.
infinibandRestoreGUIDs_NoIdCheck(dev, vol, nodeReadOk, nodeWriteOk, portReadOk, portWriteOk) ==
  LET none == [err |-> "ok", cause |-> "ok", dev |-> dev, writes |-> <<>>, calls |-> <<>>,
               reads |-> 0, vol |-> vol]
      vfID == ParseUint(vol[KeyID])
      n == IF vol[KeyNode] # <<>>
           THEN infinibandSetVFNodeGUID(dev, vfID.val, vol[KeyNode], nodeReadOk, nodeWriteOk)
           ELSE SkippedSet(dev)
      nCalls == IF vol[KeyNode] # <<>> THEN <<"node">> ELSE <<>>
      p == IF vol[KeyPort] # <<>>
           THEN infinibandSetVFPortGUID(n.dev, vfID.val, vol[KeyPort], portReadOk, portWriteOk)
           ELSE SkippedSet(n.dev)
      pCalls == IF vol[KeyPort] # <<>> THEN <<"port">> ELSE <<>>
  IN
  IF ~ vfID.ok THEN [none EXCEPT !.err = "format", !.cause = "syntax"]
  ELSE IF n.err # "ok"
  THEN [err |-> "restore_node", cause |-> n.err, dev |-> n.dev, writes |-> n.writes,
        calls |-> nCalls, reads |-> Len(nCalls), vol |-> vol]
  ELSE [err |-> IF p.err # "ok" THEN "restore_port" ELSE "ok", cause |-> p.err,
        dev |-> p.dev, writes |-> n.writes \o p.writes,
        calls |-> nCalls \o pCalls, reads |-> Len(nCalls) + Len(pCalls), vol |-> vol]

\* Faulty variant: a VF index that does not parse is taken as 0.
infinibandRestoreGUIDs_IgnoreFormat(dev, vol, nodeReadOk, nodeWriteOk, portReadOk, portWriteOk) ==
  LET none == [err |-> "ok", cause |-> "ok", dev |-> dev, writes |-> <<>>, calls |-> <<>>,
               reads |-> 0, vol |-> vol]
      vfID == ParseUint(vol[KeyID])
      n == IF vol[KeyNode] # <<>>
           THEN infinibandSetVFNodeGUID(dev, vfID.val, vol[KeyNode], nodeReadOk, nodeWriteOk)
           ELSE SkippedSet(dev)
      nCalls == IF vol[KeyNode] # <<>> THEN <<"node">> ELSE <<>>
      p == IF vol[KeyPort] # <<>>
           THEN infinibandSetVFPortGUID(n.dev, vfID.val, vol[KeyPort], portReadOk, portWriteOk)
           ELSE SkippedSet(n.dev)
      pCalls == IF vol[KeyPort] # <<>> THEN <<"port">> ELSE <<>>
  IN
  IF vol[KeyID] = <<>> THEN none
  ELSE IF n.err # "ok"
  THEN [err |-> "restore_node", cause |-> n.err, dev |-> n.dev, writes |-> n.writes,
        calls |-> nCalls, reads |-> Len(nCalls), vol |-> vol]
  ELSE [err |-> IF p.err # "ok" THEN "restore_port" ELSE "ok", cause |-> p.err,
        dev |-> p.dev, writes |-> n.writes \o p.writes,
        calls |-> nCalls \o pCalls, reads |-> Len(nCalls) + Len(pCalls), vol |-> vol]

\* Faulty variant: a successful restore removes the recorded lease from the store.
infinibandRestoreGUIDs_ClearsLease(dev, vol, nodeReadOk, nodeWriteOk, portReadOk, portWriteOk) ==
  LET none == [err |-> "ok", cause |-> "ok", dev |-> dev, writes |-> <<>>, calls |-> <<>>,
               reads |-> 0, vol |-> vol]
      cleared == [k \in DOMAIN vol |-> IF k \in Keys THEN <<>> ELSE vol[k]]
      vfID == ParseUint(vol[KeyID])
      n == IF vol[KeyNode] # <<>>
           THEN infinibandSetVFNodeGUID(dev, vfID.val, vol[KeyNode], nodeReadOk, nodeWriteOk)
           ELSE SkippedSet(dev)
      nCalls == IF vol[KeyNode] # <<>> THEN <<"node">> ELSE <<>>
      p == IF vol[KeyPort] # <<>>
           THEN infinibandSetVFPortGUID(n.dev, vfID.val, vol[KeyPort], portReadOk, portWriteOk)
           ELSE SkippedSet(n.dev)
      pCalls == IF vol[KeyPort] # <<>> THEN <<"port">> ELSE <<>>
  IN
  IF vol[KeyID] = <<>> THEN none
  ELSE IF ~ vfID.ok THEN [none EXCEPT !.err = "format", !.cause = "syntax"]
  ELSE IF n.err # "ok"
  THEN [err |-> "restore_node", cause |-> n.err, dev |-> n.dev, writes |-> n.writes,
        calls |-> nCalls, reads |-> Len(nCalls), vol |-> vol]
  ELSE [err |-> IF p.err # "ok" THEN "restore_port" ELSE "ok", cause |-> p.err,
        dev |-> p.dev, writes |-> n.writes \o p.writes,
        calls |-> nCalls \o pCalls, reads |-> Len(nCalls) + Len(pCalls),
        vol |-> IF p.err # "ok" THEN vol ELSE cleared]

\* infinibandRestoreGUIDs: the error and the error it wraps, the device
\* afterwards, the hardware writes issued, the set calls made ("node", "port"),
\* the GUID reads made and the store afterwards.
infinibandRestoreGUIDs(dev, vol, nodeReadOk, nodeWriteOk, portReadOk, portWriteOk) ==
  LET none == [err |-> "ok", cause |-> "ok", dev |-> dev, writes |-> <<>>, calls |-> <<>>,
               reads |-> 0, vol |-> vol] IN
  IF vol[KeyID] # <<>>
  THEN LET vfID == ParseUint(vol[KeyID]) IN
    IF ~ vfID.ok THEN [none EXCEPT !.err = "format", !.cause = "syntax"]
    ELSE
      LET n == IF vol[KeyNode] # <<>>
               THEN infinibandSetVFNodeGUID(dev, vfID.val, vol[KeyNode], nodeReadOk, nodeWriteOk)
               ELSE SkippedSet(dev)
          nCalls == IF vol[KeyNode] # <<>> THEN <<"node">> ELSE <<>>
      IN
      IF n.err # "ok"
      THEN [err |-> "restore_node", cause |-> n.err, dev |-> n.dev, writes |-> n.writes,
            calls |-> nCalls, reads |-> Len(nCalls), vol |-> vol]
      ELSE
        LET p == IF vol[KeyPort] # <<>>
                 THEN infinibandSetVFPortGUID(n.dev, vfID.val, vol[KeyPort], portReadOk, portWriteOk)
                 ELSE SkippedSet(n.dev)
            pCalls == IF vol[KeyPort] # <<>> THEN <<"port">> ELSE <<>>
        IN
        [err |-> IF p.err # "ok" THEN "restore_port" ELSE "ok", cause |-> p.err,
         dev |-> p.dev, writes |-> n.writes \o p.writes,
         calls |-> nCalls \o pCalls, reads |-> Len(nCalls) + Len(pCalls), vol |-> vol]
  ELSE none

\* ------------------------------------------------------------------------
\* Inputs and idle values shared by the specifications.
\* ------------------------------------------------------------------------
\* How the hardware answers one set call: <<the read succeeds, the write succeeds>>.
Answers == {<<TRUE, TRUE>>, <<FALSE, TRUE>>, <<TRUE, FALSE>>}
\* VF indices a caller may name: those of the device and one it does not have.
VfArgs == 0..NumVFs

Devices == [VFs -> [node : Guids, port : Guids]]

NoLease == [vf |-> -1, node |-> <<>>, port |-> <<>>, fresh |-> FALSE]
NoOp == [name |-> "none", vf |-> -1, err |-> "ok", cause |-> "ok", writes |-> <<>>,
         calls |-> <<>>, reads |-> 0, before |-> <<>>, lease |-> NoLease, again |-> FALSE]
NoSet == [name |-> "none", vf |-> -1, guid |-> <<>>, err |-> "ok", cur |-> <<>>,
          writes |-> <<>>]

EmptyMap == [x \in {} |-> x]
NotRun == [done |-> FALSE, devs |-> EmptyMap]
IdleMatcher == nics = <<>> /\ parent = "" /\ ibDevs = NotRun
NoMac == [name |-> "none", req |-> <<>>, getOk |-> TRUE, err |-> "ok", gets |-> 0, cur |-> <<>>,
          sets |-> <<>>]
IdleMac == hwaddr = <<>> /\ macOp = NoMac /\ macPrev = NoMac
IdleLifecycle == volatile = <<>> /\ op = NoOp /\ lease = NoLease
IdleAccessor == acc = NoSet /\ accPrev = NoSet
NoInfiniband == [present |-> FALSE, IsSMName |-> <<>>, MADName |-> <<>>, VerbName |-> <<>>]
NoProv == [name |-> "none", err |-> "ok", calls |-> <<>>, runConf |-> <<>>]
IdleProvision == ibPort = [Infiniband |-> NoInfiniband] /\ prov = NoProv
NoVerdict == [mac |-> "none", guid |-> "none"]
IdleValidator == candidate = <<>> /\ verdict = NoVerdict

\* ------------------------------------------------------------------------
\* The lifecycle specification: snapshot, set and restore calls of one caller
\* on one device and one store, in any order, with reads and writes of the
\* hardware that may fail at any call.
\* ------------------------------------------------------------------------
\* What the store may hold under the GUID keys when the caller hands it over:
\* nothing, one GUID only, both as the hardware reports them, both in another
\* spelling.
StoreGuidPairs == {<< <<>>, <<>> >>, <<TextA, TextB>>, <<TextA, <<>> >>, << <<>>, TextB>>,
                   <<UpperText(TextA), UpperText(TextA)>>}
\* What it may hold under the VF index key: nothing, an index, no number.
StoreIdTexts == {<<>>, <<"0">>, <<"x">>}

\* The name of the host device, which the caller keeps in the store.
HostName == <<"m","l","x","0">>

Store(i, n, p) ==
  [k \in StoreKeys |->
     IF k = KeyID THEN i ELSE IF k = KeyNode THEN n ELSE IF k = KeyPort THEN p ELSE HostName]

\* The entries of a store under the keys the recorder does not name.
Others(vol) == [k \in (DOMAIN vol) \ Keys |-> vol[k]]

Init ==
  /\ sriov \in Devices
  /\ volatile \in {Store(i, g[1], g[2]) : i \in StoreIdTexts, g \in StoreGuidPairs}
  /\ op = NoOp
  /\ lease = NoLease
  /\ IdleAccessor
  /\ IdleMatcher
  /\ IdleMac
  /\ IdleProvision
  /\ IdleValidator

Snapshot(vfID, nodeReadOk, portReadOk) ==
  \E r \in {infinibandSnapshotGUIDs(sriov, vfID, volatile, nodeReadOk, portReadOk)} :
  /\ volatile' = r.vol
  /\ sriov' = sriov
  /\ op' = [NoOp EXCEPT !.name = "Snapshot", !.vf = vfID, !.err = r.err, !.cause = r.err,
                        !.reads = r.reads,
                        !.before = IF r.err = "ok" THEN Others(volatile) ELSE volatile]
  /\ lease' = IF r.err = "ok"
              THEN [vf |-> vfID, node |-> sriov[vfID].node, port |-> sriov[vfID].port,
                    fresh |-> TRUE]
              ELSE NoLease
  /\ UNCHANGED <<accessorVars, matcherVars, macVars, provisionVars, validatorVars>>

\* A set call made while the device is attached: the lifecycle remembers only
\* which call it was and how it ended.
LeaseSetNodeGUID(vfID, g, readOk, writeOk) ==
  \E r \in {infinibandSetVFNodeGUID(sriov, vfID, g, readOk, writeOk)} :
  /\ sriov' = r.dev
  /\ op' = [NoOp EXCEPT !.name = "SetNodeGUID", !.err = r.err, !.cause = r.err]
  /\ lease' = IF r.err = "ok" /\ lease # NoLease /\ lease.vf = vfID
              THEN [lease EXCEPT !.fresh = FALSE] ELSE NoLease
  /\ UNCHANGED <<volatile, accessorVars, matcherVars, macVars, provisionVars, validatorVars>>

LeaseSetPortGUID(vfID, g, readOk, writeOk) ==
  \E r \in {infinibandSetVFPortGUID(sriov, vfID, g, readOk, writeOk)} :
  /\ sriov' = r.dev
  /\ op' = [NoOp EXCEPT !.name = "SetPortGUID", !.err = r.err, !.cause = r.err]
  /\ lease' = IF r.err = "ok" /\ lease # NoLease /\ lease.vf = vfID
              THEN [lease EXCEPT !.fresh = FALSE] ELSE NoLease
  /\ UNCHANGED <<volatile, accessorVars, matcherVars, macVars, provisionVars, validatorVars>>

Restore(nodeReadOk, nodeWriteOk, portReadOk, portWriteOk) ==
  \E r \in {infinibandRestoreGUIDs(sriov, volatile, nodeReadOk, nodeWriteOk,
                                  portReadOk, portWriteOk)} :
  /\ sriov' = r.dev
  /\ volatile' = r.vol
  /\ op' = [NoOp EXCEPT !.name = "Restore", !.err = r.err, !.cause = r.cause,
                        !.writes = r.writes, !.calls = r.calls, !.reads = r.reads,
                        !.before = volatile, !.lease = lease,
                        !.again = (op.name = "Restore" /\ op.err = "ok")]
  /\ lease' = NoLease
  /\ UNCHANGED <<accessorVars, matcherVars, macVars, provisionVars, validatorVars>>

Next ==
  \/ \E vfID \in VfArgs, nr \in BOOLEAN, pr \in BOOLEAN : Snapshot(vfID, nr, pr)
  \/ \E vfID \in VfArgs, g \in ReqTexts, a \in Answers : LeaseSetNodeGUID(vfID, g, a[1], a[2])
  \/ \E vfID \in VfArgs, g \in ReqTexts, a \in Answers : LeaseSetPortGUID(vfID, g, a[1], a[2])
  \/ \E n \in Answers, p \in Answers : Restore(n[1], n[2], p[1], p[2])

Spec == Init /\ [][Next]_vars

\* ------------------------------------------------------------------------
\* The accessor specification: set calls alone, each remembered in full
\* together with the one before it.
\* ------------------------------------------------------------------------
InitAccessor ==
  /\ sriov \in Devices
  /\ IdleLifecycle
  /\ IdleAccessor
  /\ IdleMatcher
  /\ IdleMac
  /\ IdleProvision
  /\ IdleValidator

SetNodeGUID(vfID, g, readOk, writeOk) ==
  \E r \in {infinibandSetVFNodeGUID(sriov, vfID, g, readOk, writeOk)} :
  /\ sriov' = r.dev
  /\ acc' = [name |-> "SetNodeGUID", vf |-> vfID, guid |-> g, err |-> r.err,
             cur |-> r.cur, writes |-> r.writes]
  /\ accPrev' = IF acc.err = "ok" THEN acc ELSE NoSet
  /\ UNCHANGED <<lifecycleVars, matcherVars, macVars, provisionVars, validatorVars>>

SetPortGUID(vfID, g, readOk, writeOk) ==
  \E r \in {infinibandSetVFPortGUID(sriov, vfID, g, readOk, writeOk)} :
  /\ sriov' = r.dev
  /\ acc' = [name |-> "SetPortGUID", vf |-> vfID, guid |-> g, err |-> r.err,
             cur |-> r.cur, writes |-> r.writes]
  /\ accPrev' = IF acc.err = "ok" THEN acc ELSE NoSet
  /\ UNCHANGED <<lifecycleVars, matcherVars, macVars, provisionVars, validatorVars>>

NextAccessor ==
  \/ \E vfID \in VfArgs, g \in ReqTexts, a \in Answers : SetNodeGUID(vfID, g, a[1], a[2])
  \/ \E vfID \in VfArgs, g \in ReqTexts, a \in Answers : SetPortGUID(vfID, g, a[1], a[2])

SpecAccessor == InitAccessor /\ [][NextAccessor]_vars

\* ------------------------------------------------------------------------
\* Properties of the lifecycle, stated of Spec.
\* ------------------------------------------------------------------------
Present(k) == volatile[k] # <<>>
Called(what) == \E i \in 1..Len(op.calls) : op.calls[i] = what
IsSet(o) == o.name \in {"SetNodeGUID", "SetPortGUID"}

\* C1: in a Restore on a store holding the VF index and both GUIDs, a failure
\* of the node-GUID restore does not prevent the port-GUID restore from being
\* attempted, and a failure of the port-GUID restore does not prevent the
\* node-GUID restore from being attempted.
C1_RestoresIndependent ==
  (op.name = "Restore" /\ Present(KeyID) /\ Present(KeyNode) /\ Present(KeyPort)
     /\ op.err \in {"restore_node", "restore_port"})
  => (Called("node") /\ Called("port"))

\* C2: a successful Restore that follows a successful Snapshot of a VF and
\* only successful set calls on that VF leaves the VF's node and port GUIDs
\* as they were immediately before the Snapshot.
C2_LeaseRoundTrip ==
  (op.name = "Restore" /\ op.err = "ok" /\ op.lease # NoLease)
  => /\ sriov[op.lease.vf].node = op.lease.node
     /\ sriov[op.lease.vf].port = op.lease.port

\* A successful Restore after a Snapshot and set calls that wrote both GUIDs back.
C2_Witness ==
  /\ op.name = "Restore" /\ op.err = "ok" /\ op.lease # NoLease
  /\ ~ op.lease.fresh
  /\ Len(op.writes) = 2
  /\ op.lease.node # op.lease.port

AsReported(t) == ParseMAC(t).ok /\ HardwareAddrString(ParseMAC(t).hw) = t

C5_NoLeaseNoWrite ==
  (op.name = "Restore" /\ ~ Present(KeyID))
  => (op.writes = <<>> /\ op.calls = <<>> /\ op.err = "ok")

\* A Restore on a store that holds both GUIDs but no VF index.
C5_Witness ==
  /\ op.name = "Restore" /\ ~ Present(KeyID)
  /\ Present(KeyNode) /\ Present(KeyPort)

\* C7: a Snapshot that fails returns the read error, issues no hardware
\* write and leaves both GUID keys of the store as they were.
C7_FailedSnapshotKeepsGuids ==
  (op.name = "Snapshot" /\ op.err # "ok")
  => /\ op.err = "read"
     /\ op.writes = <<>>
     /\ volatile[KeyNode] = op.before[KeyNode]
     /\ volatile[KeyPort] = op.before[KeyPort]

\* A Snapshot whose node read succeeded and whose port read failed, on a
\* store whose recorded node GUID is not the VF's current one.
C7_Witness ==
  /\ op.name = "Snapshot" /\ op.err = "read" /\ op.reads = 2
  /\ op.vf \in VFs
  /\ op.before[KeyNode] # HardwareAddrString(sriov[op.vf].node)

\* C15: after a Snapshot of a VF that succeeded, the store holds the decimal
\* text of the VF index, the VF's current node GUID and its current port GUID
\* under the three keys, every other entry of the store is as it was, and the
\* device's GUIDs are as they were.
C15_SnapshotRecords ==
  (op.name = "Snapshot" /\ op.err = "ok")
  => /\ ParseUint(volatile[KeyID]) = [ok |-> TRUE, val |-> op.vf]
     /\ StripZeros(volatile[KeyID]) = volatile[KeyID]
     /\ volatile[KeyNode] = HardwareAddrString(sriov[op.vf].node)
     /\ volatile[KeyPort] = HardwareAddrString(sriov[op.vf].port)
     /\ DOMAIN volatile = Keys \cup DOMAIN op.before
     /\ \A k \in DOMAIN op.before : volatile[k] = op.before[k]
     /\ op.writes = <<>>
     /\ sriov[op.vf].node = lease.node /\ sriov[op.vf].port = lease.port

\* A successful Snapshot of a VF whose two GUIDs differ, on a store that holds
\* an entry of the caller's.
C15_Witness ==
  /\ op.name = "Snapshot" /\ op.err = "ok"
  /\ sriov[op.vf].node # sriov[op.vf].port
  /\ op.before[KeyHostName] # <<>>

\* A text is a string of decimal digits.
IsDigits(t) == Len(t) > 0 /\ \A i \in 1..Len(t) : t[i] \in DecChars

\* C18: a Restore on a store whose VF index is present and is no unsigned
\* integer returns a format error, reads no GUID and issues no hardware
\* write, whatever the GUID keys hold.
C18_MalformedIndex ==
  (op.name = "Restore" /\ op.before[KeyID] # <<>> /\ ~ IsDigits(op.before[KeyID]))
  => (op.err = "format" /\ op.reads = 0 /\ op.calls = <<>> /\ op.writes = <<>>)

\* A Restore on a store that holds both GUIDs under a VF index that is no number.
C18_Witness ==
  /\ op.name = "Restore" /\ op.err = "format"
  /\ op.before[KeyID] # <<>> /\ ~ IsDigits(op.before[KeyID])
  /\ op.before[KeyNode] # <<>> /\ op.before[KeyPort] # <<>>

\* C19: a Restore leaves every entry of the store as it was, whatever it
\* returns, and every hardware write it issues names the VF index recorded
\* under last_state.vf.id.
C19_RestoreFrame ==
  op.name = "Restore"
  => /\ volatile = op.before
     /\ \A i \in 1..Len(op.writes) :
          /\ IsDigits(op.before[KeyID])
          /\ op.writes[i].vf = DecValue(op.before[KeyID])

\* A successful Restore that wrote both recorded GUIDs and left them recorded.
C19_Witness ==
  /\ op.name = "Restore" /\ op.err = "ok" /\ Len(op.writes) = 2
  /\ Present(KeyID) /\ Present(KeyNode) /\ Present(KeyPort)

\* ------------------------------------------------------------------------
\* Properties of the GUID accessor, stated of SpecAccessor.
\* ------------------------------------------------------------------------
SameCall(a, b) == a.name = b.name /\ a.vf = b.vf /\ a.guid = b.guid

\* C6: a set call that reads the requested value as the current one issues no
\* hardware write and succeeds; two calls in a row with the same arguments,
\* the first successful and the second reading the requested value, issue one
\* hardware write in all when the first had a different value to replace, and
\* none otherwise.
C6_SetIdempotent ==
  /\ (IsSet(acc) /\ acc.err # "read" /\ acc.cur = acc.guid)
     => (acc.writes = <<>> /\ acc.err = "ok")
  /\ (IsSet(acc) /\ IsSet(accPrev) /\ SameCall(acc, accPrev) /\ accPrev.err = "ok"
        /\ acc.err # "read" /\ acc.cur = acc.guid)
     => Len(accPrev.writes) + Len(acc.writes) = (IF accPrev.cur # acc.guid THEN 1 ELSE 0)

\* Two set calls in a row with the same arguments, the first of which wrote.
C6_Witness ==
  /\ IsSet(acc) /\ IsSet(accPrev) /\ SameCall(acc, accPrev)
  /\ accPrev.err = "ok" /\ Len(accPrev.writes) = 1
  /\ acc.err = "ok" /\ acc.cur = acc.guid

\* The GUID of a VF that a set call is about.
Held(a) == IF a.name = "SetNodeGUID" THEN sriov[a.vf].node ELSE sriov[a.vf].port

\* C16: a set call reads the current value first and issues at most one
\* hardware write.  A failed read is returned with no write, also when the
\* requested text does not parse; a requested text that differs from the
\* current value and does not parse gives a parse error and no write; a write
\* is issued exactly when the current value differs from a requested text
\* that parses, it carries the parsed GUID to the VF named, and when it fails
\* its error is returned.
C16_SetErrors ==
  IsSet(acc)
  => /\ Len(acc.writes) <= 1
     /\ acc.vf \notin DOMAIN sriov => acc.err = "read"
     /\ acc.err = "read" => acc.writes = <<>>
     /\ (acc.err # "read" /\ acc.cur # acc.guid /\ ~ ParseMAC(acc.guid).ok)
        => (acc.err = "parse" /\ acc.writes = <<>>)
     /\ acc.writes # <<>>
        <=> (acc.err # "read" /\ acc.cur # acc.guid /\ ParseMAC(acc.guid).ok)
     /\ acc.writes # <<>>
        => /\ acc.writes[1].vf = acc.vf
           /\ acc.writes[1].hw = ParseMAC(acc.guid).hw
           /\ acc.writes[1].kind = (IF acc.name = "SetNodeGUID" THEN "node" ELSE "port")
           /\ acc.err \in {"ok", "write"}
           /\ acc.err = "ok" => Held(acc) = acc.writes[1].hw
     /\ acc.err = "write" => acc.writes # <<>>

\* A port GUID set call whose hardware write failed and left another GUID.
C16_Witness ==
  /\ acc.name = "SetPortGUID" /\ acc.err = "write" /\ Len(acc.writes) = 1
  /\ Held(acc) # acc.writes[1].hw

\* ------------------------------------------------------------------------
\* The port/VF matcher.
\* ------------------------------------------------------------------------
\* A port is [ID, Protocol, Port]; a card is [Ports, SRIOV] where SRIOV is Nil
\* or lists the VFs, and a VF is [Ports].  The returned map takes a port identifier to
\* the port stored under it (each loop iteration has its own port variable, so
\* the stored pointer denotes the port of that iteration).
Nil == [present |-> FALSE, VFs |-> <<>>]
Put(m, k, v) == [x \in (DOMAIN m) \cup {k} |-> IF x = k THEN v ELSE m[x]]

\* Lines 26-39: the ports of the card itself.
RECURSIVE ScanCardPorts(_, _, _)
ScanCardPorts(ports, par, devs) ==
  IF ports = <<>> THEN devs
  ELSE LET port == Head(ports) IN
       IF port.Protocol # "infiniband" THEN ScanCardPorts(Tail(ports), par, devs)
       ELSE IF port.ID # par THEN ScanCardPorts(Tail(ports), par, devs)
       ELSE ScanCardPorts(Tail(ports), par, Put(devs, port.ID, port))

\* Lines 50-68: the ports of one VF.
RECURSIVE ScanVFPorts(_, _, _, _, _)
ScanVFPorts(ports, par, parentIsPF, parentDev, devs) ==
  IF ports = <<>> THEN devs
  ELSE LET port == Head(ports)
           rest == Tail(ports)
       IN
       IF port.Protocol # "infiniband" THEN ScanVFPorts(rest, par, parentIsPF, parentDev, devs)
       ELSE IF parentIsPF /\ parentDev.Port # port.Port
       THEN ScanVFPorts(rest, par, parentIsPF, parentDev, devs)
       ELSE IF ~ parentIsPF /\ port.ID # par
       THEN ScanVFPorts(rest, par, parentIsPF, parentDev, devs)
       ELSE ScanVFPorts(rest, par, parentIsPF, parentDev, Put(devs, port.ID, port))

\* Lines 49-69: the VFs of one card.
RECURSIVE ScanVFs(_, _, _, _, _)
ScanVFs(vfs, par, parentIsPF, parentDev, devs) ==
  IF vfs = <<>> THEN devs
  ELSE ScanVFs(Tail(vfs), par, parentIsPF, parentDev,
               ScanVFPorts(Head(vfs).Ports, par, parentIsPF, parentDev, devs))

\* Lines 25-70: the cards in order; the map is shared by all of them, and
\* parentIsPF is whether the map holds the parent when the card's VFs are scanned.
RECURSIVE ScanCards(_, _, _)
ScanCards(cards, par, devs) ==
  IF cards = <<>> THEN devs
  ELSE LET card == Head(cards)
           devs1 == ScanCardPorts(card.Ports, par, devs)
           parentIsPF == par \in DOMAIN devs1
           parentDev == IF parentIsPF THEN devs1[par] ELSE [ID |-> "", Protocol |-> "", Port |-> 0]
       IN
       IF card.SRIOV = Nil THEN ScanCards(Tail(cards), par, devs1)
       ELSE ScanCards(Tail(cards), par,
                      ScanVFs(card.SRIOV.VFs, par, parentIsPF, parentDev, devs1))

infinibandDevices(inv, par) == ScanCards(inv.Cards, par, EmptyMap)

\* ------------------------------------------------------------------------
\* The matcher specification: one call on an inventory whose port identifiers
\* are unique on the host.  Two identifiers name ports of cards, two name
\* ports of VFs; each is placed on a card, with a port number and a protocol.
\* ------------------------------------------------------------------------
CardIdx == 1..MaxCards
PortNums == {1, 2}
Protocols == {"infiniband", "ethernet"}
Parents == {"p1", "p2", "v1", "v2", "none"}

PortRec(id, proto, n) == [ID |-> id, Protocol |-> proto, Port |-> n]

\* The ports of a list that were placed on card c, in the order of the list.
RECURSIVE OnCard(_, _)
OnCard(placed, c) ==
  IF placed = <<>> THEN <<>>
  ELSE IF Head(placed).card = c
       THEN <<Head(placed).port>> \o OnCard(Tail(placed), c)
       ELSE OnCard(Tail(placed), c)

RECURSIVE AsVFs(_)
AsVFs(ports) == IF ports = <<>> THEN <<>> ELSE <<[Ports |-> <<Head(ports)>>]>> \o AsVFs(Tail(ports))

Inventory(pfs, vfs, sriovOn) ==
  [Cards |-> [c \in CardIdx |->
                [Ports |-> OnCard(pfs, c),
                 SRIOV |-> IF sriovOn[c]
                          THEN [present |-> TRUE, VFs |-> AsVFs(OnCard(vfs, c))]
                          ELSE Nil]]]

InitMatcher ==
  /\ \E c1 \in CardIdx, n1 \in PortNums, c2 \in CardIdx, q2 \in Protocols,
        d1 \in CardIdx, m1 \in PortNums, d2 \in CardIdx, m2 \in PortNums, r2 \in Protocols,
        sriovOn \in [CardIdx -> BOOLEAN] :
       nics = Inventory(<<[card |-> c1, port |-> PortRec("p1", "infiniband", n1)],
                          [card |-> c2, port |-> PortRec("p2", q2, 2)]>>,
                        <<[card |-> d1, port |-> PortRec("v1", "infiniband", m1)],
                          [card |-> d2, port |-> PortRec("v2", r2, m2)]>>,
                        sriovOn)
  /\ parent \in Parents
  /\ ibDevs = NotRun
  /\ sriov = <<>>
  /\ IdleLifecycle
  /\ IdleAccessor
  /\ IdleMac
  /\ IdleProvision
  /\ IdleValidator

Match ==
  /\ ~ ibDevs.done
  /\ ibDevs' = [done |-> TRUE, devs |-> infinibandDevices(nics, parent)]
  /\ UNCHANGED <<sriov, lifecycleVars, accessorVars, nics, parent, macVars, provisionVars, validatorVars>>

NextMatcher == Match

SpecMatcher == InitMatcher /\ [][NextMatcher]_vars

\* The ports the map returned.
Returned == {ibDevs.devs[k] : k \in DOMAIN ibDevs.devs}
CardsOf(inv) == {inv.Cards[c] : c \in DOMAIN inv.Cards}
VFPortsOf(card) ==
  IF card.SRIOV = Nil THEN {}
  ELSE UNION {{card.SRIOV.VFs[i].Ports[j] : j \in DOMAIN card.SRIOV.VFs[i].Ports} :
                i \in DOMAIN card.SRIOV.VFs}
PFPortsOf(card) == {card.Ports[i] : i \in DOMAIN card.Ports}
IsIB(port) == port.Protocol = "infiniband"

\* C8: when the parent is an InfiniBand port of card X itself, the matcher
\* returns exactly that port and the InfiniBand VF ports of card X that have
\* the parent's port number.
C8_ParentAndItsVFs ==
  \A card \in CardsOf(nics) : \A pf \in PFPortsOf(card) :
    (ibDevs.done /\ pf.ID = parent /\ IsIB(pf))
    => Returned = {pf} \cup {v \in VFPortsOf(card) : IsIB(v) /\ v.Port = pf.Port}

\* C9: when the parent is the identifier of no port of a card itself, the
\* matcher returns only InfiniBand VF ports whose identifier is the parent,
\* and exactly that port when the parent names an InfiniBand VF port.
C9_OnlyTheNamedVF ==
  (ibDevs.done /\ \A card \in CardsOf(nics) : \A pf \in PFPortsOf(card) : pf.ID # parent)
  => Returned = {v \in UNION {VFPortsOf(card) : card \in CardsOf(nics)} :
                   IsIB(v) /\ v.ID = parent}

\* ------------------------------------------------------------------------
\* The hardware-address setter.
\* ------------------------------------------------------------------------
\* NetworkGetDevMAC: the link's address as the host reports it; getOk is
\* whether the address can be read this time.
NetworkGetDevMAC(link, getOk) ==
  IF getOk THEN [err |-> "ok", val |-> HardwareAddrString(link)]
  ELSE [err |-> "get", val |-> <<>>]

\* NetworkSetDevMAC: the link takes the address when the call succeeds, which
\* needs a text that denotes an address of the link's length.
NetworkSetDevMAC(link, text, setOk) ==
  LET a == ParseMAC(text) IN
  IF setOk /\ a.ok /\ Len(a.hw) = Len(link)
  THEN [err |-> "ok", link |-> a.hw]
  ELSE [err |-> "set", link |-> link]

\* Faulty variant: the prefix kept from the current address is one character short.
infinibandSetDevMAC_ShortPrefix(link, hwaddrReq, getOk, setOk) ==
  LET cur == NetworkGetDevMAC(link, getOk)
      value == SubSeq(cur.val, 1, PrefixLen - 1) \o hwaddrReq
      w == NetworkSetDevMAC(link, value, setOk)
      d == NetworkSetDevMAC(link, hwaddrReq, setOk)
  IN
  IF Len(hwaddrReq) = LongLen
  THEN [err |-> d.err, link |-> d.link, gets |-> 0, cur |-> <<>>, sets |-> <<hwaddrReq>>]
  ELSE IF Len(hwaddrReq) # ShortLen
  THEN [err |-> "length", link |-> link, gets |-> 0, cur |-> <<>>, sets |-> <<>>]
  ELSE IF cur.err # "ok"
  THEN [err |-> cur.err, link |-> link, gets |-> 1, cur |-> <<>>, sets |-> <<>>]
  ELSE IF Len(cur.val) < PrefixLen - 1
  THEN [err |-> "panic", link |-> link, gets |-> 1, cur |-> cur.val, sets |-> <<>>]
  ELSE [err |-> w.err, link |-> w.link, gets |-> 1, cur |-> cur.val, sets |-> <<value>>]

\* Faulty variant: the current address is read before the length is looked at.
infinibandSetDevMAC_GetFirst(link, hwaddrReq, getOk, setOk) ==
  LET curHwaddr == NetworkGetDevMAC(link, getOk) IN
  IF curHwaddr.err # "ok"
  THEN [err |-> curHwaddr.err, link |-> link, gets |-> 1, cur |-> <<>>, sets |-> <<>>]
  ELSE IF Len(hwaddrReq) = LongLen
  THEN LET w == NetworkSetDevMAC(link, hwaddrReq, setOk) IN
       [err |-> w.err, link |-> w.link, gets |-> 1, cur |-> curHwaddr.val,
        sets |-> <<hwaddrReq>>]
  ELSE IF Len(hwaddrReq) # ShortLen
  THEN [err |-> "length", link |-> link, gets |-> 1, cur |-> curHwaddr.val, sets |-> <<>>]
  ELSE IF Len(curHwaddr.val) < PrefixLen
  THEN [err |-> "panic", link |-> link, gets |-> 1, cur |-> curHwaddr.val, sets |-> <<>>]
  ELSE LET value == SubSeq(curHwaddr.val, 1, PrefixLen) \o hwaddrReq
           w == NetworkSetDevMAC(link, value, setOk)
       IN [err |-> w.err, link |-> w.link, gets |-> 1, cur |-> curHwaddr.val,
           sets |-> <<value>>]

\* infinibandSetDevMAC: the error, the link afterwards, the number of get
\* calls, the current address that was read and the values passed to the set
\* operation, in order.  Slicing a current address of fewer than 36
\* characters ends the call with a run-time panic.
infinibandSetDevMAC(link, hwaddrReq, getOk, setOk) ==
  IF Len(hwaddrReq) = LongLen
  THEN LET w == NetworkSetDevMAC(link, hwaddrReq, setOk) IN
       [err |-> w.err, link |-> w.link, gets |-> 0, cur |-> <<>>, sets |-> <<hwaddrReq>>]
  ELSE IF Len(hwaddrReq) = ShortLen
  THEN LET curHwaddr == NetworkGetDevMAC(link, getOk) IN
       IF curHwaddr.err # "ok"
       THEN [err |-> curHwaddr.err, link |-> link, gets |-> 1, cur |-> <<>>, sets |-> <<>>]
       ELSE IF Len(curHwaddr.val) < PrefixLen
       THEN [err |-> "panic", link |-> link, gets |-> 1, cur |-> curHwaddr.val, sets |-> <<>>]
       ELSE LET value == SubSeq(curHwaddr.val, 1, PrefixLen) \o hwaddrReq
                w == NetworkSetDevMAC(link, value, setOk)
            IN [err |-> w.err, link |-> w.link, gets |-> 1, cur |-> curHwaddr.val,
                sets |-> <<value>>]
  ELSE [err |-> "length", link |-> link, gets |-> 0, cur |-> <<>>, sets |-> <<>>]

\* ------------------------------------------------------------------------
\* The address specification: calls of the setter on one link, each
\* remembered together with the one before it.
\* ------------------------------------------------------------------------
\* The two 12-byte prefixes of the source's examples.
PrefixA == <<160, 0, 15, 192, 254, 128, 0, 0, 0, 0, 0, 0>>
PrefixB == <<160, 0, 20, 192, 254, 128, 0, 0, 0, 0, 0, 0>>
\* A 6-byte address, as a link that is not InfiniBand has.
EtherAddr == <<0, 22, 62, 1, 2, 3>>

LinkAddrs == {PrefixA \o GuidB, PrefixB \o GuidA, EtherAddr}

\* A text of the short length that is no hex-pair address.
ShortBadText == [i \in 1..ShortLen |-> IF i % 3 = 0 THEN ":" ELSE "z"]

\* Requested addresses: short forms (as reported, in another spelling, and
\* one that does not parse), a long form, and a text of another length.
MacRequests == {TextA, TextB, UpperText(TextA), ShortBadText,
                HardwareAddrString(PrefixA \o GuidA), BadText}

InitMac ==
  /\ hwaddr \in LinkAddrs
  /\ macOp = NoMac
  /\ macPrev = NoMac
  /\ sriov = <<>>
  /\ IdleLifecycle
  /\ IdleAccessor
  /\ IdleMatcher
  /\ IdleProvision
  /\ IdleValidator

SetDevMAC(req, getOk, setOk) ==
  \E r \in {infinibandSetDevMAC(hwaddr, req, getOk, setOk)} :
  /\ hwaddr' = r.link
  /\ macOp' = [name |-> "SetDevMAC", req |-> req, getOk |-> getOk, err |-> r.err,
               gets |-> r.gets, cur |-> r.cur, sets |-> r.sets]
  /\ macPrev' = IF macOp.err = "ok" THEN macOp ELSE NoMac
  /\ UNCHANGED <<sriov, lifecycleVars, accessorVars, matcherVars, provisionVars, validatorVars>>

NextMac == \E req \in MacRequests, a \in Answers : SetDevMAC(req, a[1], a[2])

SpecMac == InitMac /\ [][NextMac]_vars

\* C10: a short-form request on a link whose current address is read and has
\* the long length makes one set call, with the first 36 characters of the
\* current address followed by the request; when the same request was applied
\* successfully by the call before, the value passed denotes the same address
\* and the link keeps the address the first call gave it.
C10_PrefixSplice ==
  (macOp.name = "SetDevMAC" /\ Len(macOp.req) = ShortLen /\ macOp.err # "get"
     /\ Len(macOp.cur) = LongLen)
  => /\ macOp.gets = 1
     /\ macOp.sets = <<SubSeq(macOp.cur, 1, PrefixLen) \o macOp.req>>
     /\ (macPrev.name = "SetDevMAC" /\ macPrev.req = macOp.req /\ macPrev.err = "ok")
        => /\ ParseMAC(macOp.sets[1]) = ParseMAC(macPrev.sets[1])
           /\ hwaddr = ParseMAC(macPrev.sets[1]).hw

\* The same short-form request applied twice in a row, the first call having
\* changed the link's address.
C10_Witness ==
  /\ macOp.name = "SetDevMAC" /\ Len(macOp.req) = ShortLen /\ macOp.err = "ok"
  /\ macPrev.name = "SetDevMAC" /\ macPrev.req = macOp.req /\ macPrev.err = "ok"
  /\ macPrev.cur # macOp.cur
  /\ Len(macOp.cur) = LongLen

\* C17: the setter dispatches on the length of the requested address.  A
\* request of 59 characters makes one set call with the request itself and no
\* get call; a request of 23 characters whose get call fails returns that
\* error and makes no set call; a request of another length returns the
\* "invalid length" error and makes neither call.
C17_LengthDispatch ==
  macOp.name = "SetDevMAC"
  => /\ Len(macOp.req) = LongLen
        => (macOp.gets = 0 /\ macOp.sets = <<macOp.req>> /\ macOp.err \in {"ok", "set"})
     /\ (Len(macOp.req) = ShortLen /\ ~ macOp.getOk)
        => (macOp.gets = 1 /\ macOp.err = "get" /\ macOp.sets = <<>>)
     /\ Len(macOp.req) \notin {ShortLen, LongLen}
        => (macOp.err = "length" /\ macOp.gets = 0 /\ macOp.sets = <<>>)

\* A long-form request that gave the link the requested address, made when
\* the current address could not have been read.
C17_Witness ==
  /\ macOp.name = "SetDevMAC" /\ Len(macOp.req) = LongLen /\ macOp.err = "ok"
  /\ ~ macOp.getOk
  /\ hwaddr = ParseMAC(macOp.req).hw
  /\ macPrev.name = "SetDevMAC" /\ macPrev.cur # <<>> /\ macPrev.cur # macOp.req

\* C14: a short-form request ends with success or a returned error whatever
\* current address the get operation returns, never with a run-time abort,
\* and every value it passes to the set operation is 59 characters long.
C14_NoAbnormalEnd ==
  (macOp.name = "SetDevMAC" /\ Len(macOp.req) = ShortLen)
  => /\ macOp.err # "panic"
     /\ \A i \in 1..Len(macOp.sets) : Len(macOp.sets[i]) = LongLen

\* ------------------------------------------------------------------------
\* The device node provisioner.
\* ------------------------------------------------------------------------
IBDevPrefix == "infiniband.unix"

\* fmt.Sprintf("/dev/infiniband/%s", name).
DevDir == <<"/","d","e","v","/","i","n","f","i","n","i","b","a","n","d","/">>
DevSource(name) == DevDir \o name

\* unixDeviceSetup of the device-setup collaborator: when it succeeds the run
\* configuration gains the plumbing of the device, and is left alone otherwise.
unixDeviceSetup(prefix, deviceName, device, runConf, setupOk) ==
  IF setupOk
  THEN [err |-> "ok",
        runConf |-> Append(runConf, [prefix |-> prefix, name |-> deviceName,
                                     source |-> device.source])]
  ELSE [err |-> "setup", runConf |-> runConf]

\* Faulty variant: a failed setup call does not stop the later ones.
infinibandAddDevices_KeepGoing(deviceName, ibDev, runConf, smOk, madOk, verbOk) ==
  LET ib == ibDev.Infiniband
      step(acc0, name, ok) ==
        IF name = <<>> THEN acc0
        ELSE LET device == [source |-> DevSource(name)]
                 r == unixDeviceSetup(IBDevPrefix, deviceName, device, acc0.runConf, ok)
             IN [err |-> IF acc0.err # "ok" THEN acc0.err ELSE r.err,
                 runConf |-> r.runConf,
                 calls |-> Append(acc0.calls, [source |-> device.source, ok |-> ok])]
      s0 == [err |-> "ok", runConf |-> runConf, calls |-> <<>>]
  IN
  IF ~ ib.present THEN [err |-> "no_infiniband", runConf |-> runConf, calls |-> <<>>]
  ELSE step(step(step(s0, ib.IsSMName, smOk), ib.MADName, madOk), ib.VerbName, verbOk)

\* infinibandAddDevices: the error, the run configuration afterwards and the
\* setup calls made, in order, each with the source it named and how it ended.
\* smOk, madOk and verbOk are whether the setup of each device would succeed.
infinibandAddDevices(deviceName, ibDev, runConf, smOk, madOk, verbOk) ==
  LET ib == ibDev.Infiniband
      none == [err |-> "ok", runConf |-> runConf, calls |-> <<>>]
      \* One "if name is defined, set the device up" block of the function.
      step(acc0, name, ok) ==
        IF name = <<>> THEN acc0
        ELSE LET device == [source |-> DevSource(name)]
                 r == unixDeviceSetup(IBDevPrefix, deviceName, device, acc0.runConf, ok)
             IN [err |-> r.err, runConf |-> r.runConf,
                 calls |-> Append(acc0.calls, [source |-> device.source, ok |-> ok])]
  IN
  IF ~ ib.present THEN [none EXCEPT !.err = "no_infiniband"]
  ELSE LET sm == step(none, ib.IsSMName, smOk) IN
    IF sm.err # "ok" THEN sm
    ELSE LET mad == step(sm, ib.MADName, madOk) IN
      IF mad.err # "ok" THEN mad
      ELSE step(mad, ib.VerbName, verbOk)

\* ------------------------------------------------------------------------
\* The provisioner specification: calls of the provisioner on one matched
\* port, each starting from an empty run configuration, with setup calls that
\* may fail.
\* ------------------------------------------------------------------------
Issm0 == <<"i","s","s","m","0">>
Issm1 == <<"i","s","s","m","1">>
Umad0 == <<"u","m","a","d","0">>
Umad1 == <<"u","m","a","d","1">>
Uverbs0 == <<"u","v","e","r","b","s","0">>
Uverbs1 == <<"u","v","e","r","b","s","1">>

\* The instance's name of the device.
DeviceName == <<"i","b","0">>

\* The payloads a port may carry: none, or any of the three names set or unset.
Payloads ==
  {NoInfiniband} \cup
  [present : {TRUE}, IsSMName : {<<>>, Issm0, Issm1}, MADName : {<<>>, Umad0, Umad1},
   VerbName : {<<>>, Uverbs0, Uverbs1}]

InitProvision ==
  /\ ibPort \in [Infiniband : Payloads]
  /\ prov = NoProv
  /\ sriov = <<>>
  /\ IdleLifecycle
  /\ IdleAccessor
  /\ IdleMatcher
  /\ IdleMac
  /\ IdleValidator

AddDevices(smOk, madOk, verbOk) ==
  \E r \in {infinibandAddDevices(DeviceName, ibPort, <<>>, smOk, madOk, verbOk)} :
  /\ prov' = [name |-> "AddDevices", err |-> r.err, calls |-> r.calls, runConf |-> r.runConf]
  /\ UNCHANGED <<ibPort, sriov, lifecycleVars, accessorVars, matcherVars, macVars, validatorVars>>

NextProvision == \E smOk \in BOOLEAN, madOk \in BOOLEAN, verbOk \in BOOLEAN :
                   AddDevices(smOk, madOk, verbOk)

SpecProvision == InitProvision /\ [][NextProvision]_vars

\* The sources of the devices a payload names, in the order subnet-manager,
\* management-datagram, verbs.
RECURSIVE NonEmpty(_)
NonEmpty(names) ==
  IF names = <<>> THEN <<>>
  ELSE IF Head(names) = <<>> THEN NonEmpty(Tail(names))
  ELSE <<Head(names)>> \o NonEmpty(Tail(names))

Wanted(ib) ==
  LET names == NonEmpty(<<ib.IsSMName, ib.MADName, ib.VerbName>>)
  IN [i \in 1..Len(names) |-> DevSource(names[i])]

\* C11: the provisioner makes its setup calls in the order subnet-manager,
\* management-datagram, verbs, one per name that is set.  When every call
\* succeeds there are as many calls as names set and the result is success;
\* when a call fails the result is that error and that call is the last one;
\* on a port without InfiniBand payload the result is an error and no call is
\* made.
C11_ProvisionOrder ==
  prov.name = "AddDevices" =>
    IF ~ ibPort.Infiniband.present
    THEN prov.err = "no_infiniband" /\ prov.calls = <<>>
    ELSE LET want == Wanted(ibPort.Infiniband)
             n == Len(prov.calls)
         IN /\ n <= Len(want)
            /\ \A i \in 1..n : prov.calls[i].source = want[i]
            /\ (\A i \in 1..n : prov.calls[i].ok)
               => (prov.err = "ok" /\ n = Len(want) /\ Len(prov.runConf) = n)
            /\ (\E i \in 1..n : ~ prov.calls[i].ok)
               => (prov.err = "setup" /\ ~ prov.calls[n].ok
                   /\ \A i \in 1..(n - 1) : prov.calls[i].ok)

\* The port of the end-to-end scenario: subnet-manager and verbs names set,
\* management-datagram unset, provisioned with two setup calls.
C11_Witness ==
  /\ prov.name = "AddDevices" /\ prov.err = "ok"
  /\ ibPort.Infiniband.present
  /\ ibPort.Infiniband.IsSMName # <<>> /\ ibPort.Infiniband.MADName = <<>>
  /\ ibPort.Infiniband.VerbName # <<>>
  /\ Len(prov.calls) = 2

\* ------------------------------------------------------------------------
\* The address format validators.
\* ------------------------------------------------------------------------
\* strings.ContainsAny(s, chars).
ContainsAny(s, chars) == \E i \in 1..Len(s) : s[i] \in chars

\* Faulty variant: the delimiter of the address is not checked.
infinibandValidMAC_AnyDelimiter(v) ==
  IF ~ ParseMAC(v).ok \/ (Len(v) # ShortLen /\ Len(v) # LongLen)
  THEN "invalid" ELSE "ok"

\* infinibandValidMAC: "ok" when the function returns nil, "invalid" otherwise.
infinibandValidMAC(v) ==
  IF ~ ParseMAC(v).ok \/ (Len(v) # ShortLen /\ Len(v) # LongLen) \/ ContainsAny(v, {"-", "."})
  THEN "invalid" ELSE "ok"

\* infinibandValidGUID: "ok" when the function returns nil, "invalid" otherwise.
infinibandValidGUID(v) ==
  IF ~ ParseMAC(v).ok \/ Len(v) # ShortLen \/ ContainsAny(v, {"-", "."})
  THEN "invalid" ELSE "ok"

\* ------------------------------------------------------------------------
\* The validator specification: one text, handed to each validator.  The
\* texts are addresses of 6, 8 and 20 bytes in the three forms net.ParseMAC
\* reads, in lower and upper case, intact or damaged in one place.
\* ------------------------------------------------------------------------
\* The colon form with its colons replaced by dashes.
DashText(s) == [i \in 1..Len(s) |-> IF s[i] = ":" THEN "-" ELSE s[i]]

\* The dot form: groups of four hex digits separated by dots.
RECURSIVE DotText(_)
DotText(hw) ==
  IF Len(hw) < 2 THEN <<>>
  ELSE LET group == <<HexLower[(hw[1] \div 16) + 1], HexLower[(hw[1] % 16) + 1],
                      HexLower[(hw[2] \div 16) + 1], HexLower[(hw[2] % 16) + 1]>>
       IN IF Len(hw) = 2 THEN group
          ELSE group \o <<".">> \o DotText(SubSeq(hw, 3, Len(hw)))

ValidatedAddrs == {GuidA, GuidB, EtherAddr, PrefixA \o GuidA, PrefixB \o GuidB}

Spellings(hw) ==
  LET forms == {HardwareAddrString(hw), DashText(HardwareAddrString(hw)), DotText(hw)}
  IN forms \cup {UpperText(t) : t \in forms}

\* One text damaged in one place: a character that is no hex digit, another
\* delimiter in the second gap, a character missing, one too many, a space.
Damaged(t) ==
  {[t EXCEPT ![1] = "g"],
   [t EXCEPT ![6] = IF t[6] = ":" THEN "-" ELSE ":"],
   SubSeq(t, 1, Len(t) - 1),
   t \o <<"0">>,
   <<" ">> \o t}

Candidates ==
  LET intact == UNION {Spellings(hw) : hw \in ValidatedAddrs}
  IN intact \cup UNION {Damaged(t) : t \in intact} \cup {<<>>, BadText}

InitValidator ==
  /\ candidate \in Candidates
  /\ verdict = NoVerdict
  /\ sriov = <<>>
  /\ IdleLifecycle
  /\ IdleAccessor
  /\ IdleMatcher
  /\ IdleMac
  /\ IdleProvision

ValidMAC ==
  /\ verdict' = [verdict EXCEPT !.mac = infinibandValidMAC(candidate)]
  /\ UNCHANGED <<candidate, sriov, lifecycleVars, accessorVars, matcherVars, macVars,
                 provisionVars>>

ValidGUID ==
  /\ verdict' = [verdict EXCEPT !.guid = infinibandValidGUID(candidate)]
  /\ UNCHANGED <<candidate, sriov, lifecycleVars, accessorVars, matcherVars, macVars,
                 provisionVars>>

NextValidator == ValidMAC \/ ValidGUID

SpecValidator == InitValidator /\ [][NextValidator]_vars

\* A text is n hex pairs separated by colons.
IsColonHexPairs(v, n) ==
  /\ Len(v) = 3 * n - 1
  /\ \A i \in 1..Len(v) : IF i % 3 = 0 THEN v[i] = ":" ELSE v[i] \in HexChars

\* C12: the hardware-address validator accepts exactly the colon-delimited
\* hex-pair addresses of 23 or 59 characters, the GUID validator exactly
\* those of 23 characters; so what the GUID validator accepts the address
\* validator accepts, and an accepted text of 59 characters is rejected by
\* the GUID validator.
C12_ValidatorsAccept ==
  /\ verdict.mac # "none"
     => (verdict.mac = "ok" <=> (IsColonHexPairs(candidate, 8) \/ IsColonHexPairs(candidate, 20)))
  /\ verdict.guid # "none"
     => (verdict.guid = "ok" <=> IsColonHexPairs(candidate, 8))
  /\ (verdict.mac # "none" /\ verdict.guid # "none")
     => /\ verdict.guid = "ok" => verdict.mac = "ok"
        /\ (verdict.mac = "ok" /\ Len(candidate) = LongLen) => verdict.guid = "invalid"

\* A long-form address in upper case that the address validator accepted and
\* the GUID validator rejected.
C12_Witness ==
  /\ candidate = UpperText(HardwareAddrString(PrefixA \o GuidA))
  /\ verdict.mac = "ok" /\ verdict.guid = "invalid"

\* ------------------------------------------------------------------------
\* The recorder specification: Snapshot and Restore calls on one device and
\* one store that starts empty, so that every GUID the store holds was put
\* there by a Snapshot.  Here lease is the last Snapshot that succeeded, the
\* one whose GUIDs the store holds, and it is kept by the calls that leave
\* those GUIDs in the store.
\* ------------------------------------------------------------------------
InitRecorder ==
  /\ sriov \in Devices
  /\ volatile = Store(<<>>, <<>>, <<>>)
  /\ op = NoOp
  /\ lease = NoLease
  /\ IdleAccessor
  /\ IdleMatcher
  /\ IdleMac
  /\ IdleProvision
  /\ IdleValidator

RecorderSnapshot(vfID, nodeReadOk, portReadOk) ==
  \E r \in {infinibandSnapshotGUIDs(sriov, vfID, volatile, nodeReadOk, portReadOk)} :
  /\ volatile' = r.vol
  /\ sriov' = sriov
  /\ op' = [NoOp EXCEPT !.name = "Snapshot", !.vf = vfID, !.err = r.err, !.cause = r.err,
                        !.reads = r.reads]
  /\ lease' = IF r.err = "ok"
              THEN [vf |-> vfID, node |-> sriov[vfID].node, port |-> sriov[vfID].port,
                    fresh |-> TRUE]
              ELSE lease
  /\ UNCHANGED <<accessorVars, matcherVars, macVars, provisionVars, validatorVars>>

RecorderRestore(nodeReadOk, nodeWriteOk, portReadOk, portWriteOk) ==
  \E r \in {infinibandRestoreGUIDs(sriov, volatile, nodeReadOk, nodeWriteOk,
                                  portReadOk, portWriteOk)} :
  /\ sriov' = r.dev
  /\ volatile' = r.vol
  /\ op' = [NoOp EXCEPT !.name = "Restore", !.err = r.err, !.cause = r.cause,
                        !.writes = r.writes, !.calls = r.calls, !.reads = r.reads,
                        !.lease = lease]
  /\ lease' = lease
  /\ UNCHANGED <<accessorVars, matcherVars, macVars, provisionVars, validatorVars>>

NextRecorder ==
  \/ \E vfID \in VfArgs, nr \in BOOLEAN, pr \in BOOLEAN : RecorderSnapshot(vfID, nr, pr)
  \/ \E n \in Answers, p \in Answers : RecorderRestore(n[1], n[2], p[1], p[2])

SpecRecorder == InitRecorder /\ [][NextRecorder]_vars

\* C13: after any Snapshot calls on one store, a GUID the store holds was
\* read from the VF that last_state.vf.id names; and a Restore writes a
\* recorded GUID only to the VF it was read from.
C13_NoCrossVF ==
  /\ (Present(KeyNode) \/ Present(KeyPort))
     => (lease # NoLease /\ volatile[KeyID] = FormatInt(lease.vf))
  /\ (op.name = "Restore" /\ op.lease # NoLease)
     => \A i \in 1..Len(op.writes) : op.writes[i].vf = op.lease.vf

====
